---- MODULE Spec2Model ----
(***************************************************************************)
(* A model of the DALiuGE cluster start-up script                          *)
(* (dlg/deploy/pawsey/start_dfms_cluster.py) and of the helpers of         *)
(* dfms/utils.py it relies on.                                             *)
(*                                                                         *)
(* The specifications share the variables:                                 *)
(*   SpecProbe  one call of check_host (by port and by session);           *)
(*   SpecCH     one call of check_hosts (the concurrent health prober);    *)
(*   SpecMef, SpecMg  monitor_execution_finished and monitor_graph polling *)
(*              a manager whose sessions evolve;                           *)
(*   Spec       main(): the coordinator in the single-island and the       *)
(*              multi-island topology, with its detached submission thread;*)
(*   FairSpecOwner  the single-island cluster under fair scheduling;       *)
(*   FairSpecHighest  the multi-island cluster up to the start of the      *)
(*              master manager, under fair scheduling;                     *)
(*   FairSpecProbe  SpecProbe with a running call and an advancing clock;  *)
(*   SpecCadence  the timing of monitor_graph's polling cycles;            *)
(*   FairSpecLatch  threads sharing one utils.CountDownLatch.              *)
(***************************************************************************)
EXTENDS Integers, Sequences, FiniteSets, TLC

VARIABLES
    \* ---- environment: which host ports accept connections
    portOpen,
    \* ---- check_hosts
    ch_pc, ch_ips, ch_retry, ch_task, ch_ntries, ch_nprobes, ch_firstOK,
    ch_up, ch_order, ch_result,
    \* ---- the manager polled by the monitors: its sessions, in the order
    \* sessions() lists them
    sessions,
    \* ---- monitor_execution_finished
    mef_pc, mef_snap, mef_i,
    \* ---- monitor_graph: its position, the list it iterates, graph_dict,
    \* the two logs, and whether the directory of dump_path exists
    mg_pc, mg_snap, mg_i, mg_cycles, graph_dict, gfile, sfile, dirExists,
    \* ---- main(): the command line, each process's position, get_pg's
    \* progress, the graph, the process handle, the detached thread
    opts, pc, gp_todo, gp_called, pgt, pg, nm_proc, bg_pc, bg_probed,
    \* ---- the manager processes and what was done to them
    mgrProc, dimNodes, dimStarts, mmStarts, bgTasks, termCalls, submitCalls,
    \* ---- the topology provider's node-list messages
    chan, sent, received,
    \* ---- what main() has set up on each process: the topology provider,
    \* the log directory
    setup,
    \* ---- the network: the hosts no route leads to
    unreachable,
    \* ---- one call of check_host: its position, its arguments, the clock
    \* of writeToRemotePort, its outcome, and the sessions the probed node
    \* manager holds
    pr_pc, pr_session, pr_timeout, pr_elapsed, pr_result, nm_sessions,
    \* ---- the network: the hosts that do not answer a connection attempt
    silent,
    \* ---- the timing of a monitor's poll loop: its position, the sessions
    \* of the cycle and the one in hand, the clock, the start of the cycle,
    \* the time the cycle has worked, its sleeps and the last sleep requested
    cd_pc, cd_n, cd_i, cd_now, cd_start, cd_work, cd_sleeps, cd_req,
    \* ---- a CountDownLatch: the count it was built with, self.count, the
    \* owner of the condition's lock, the threads inside wait(), each
    \* thread's position and the countDown() calls that have completed
    l_n, l_count, l_owner, l_waitset, l_pc, l_done

chVars == <<ch_pc, ch_ips, ch_retry, ch_task, ch_ntries, ch_nprobes,
            ch_firstOK, ch_up, ch_order, ch_result>>

mefVars == <<mef_pc, mef_snap, mef_i>>

mgVars == <<mg_pc, mg_snap, mg_i, mg_cycles, graph_dict, gfile, sfile,
            dirExists>>

coVars == <<opts, pc, gp_todo, gp_called, pgt, pg, nm_proc, bg_pc, bg_probed,
            mgrProc, dimNodes, dimStarts, mmStarts, bgTasks, termCalls,
            submitCalls, chan, sent, received, setup>>

probeVars == <<unreachable, pr_pc, pr_session, pr_timeout, pr_elapsed,
               pr_result, nm_sessions>>

cadVars == <<cd_pc, cd_n, cd_i, cd_now, cd_start, cd_work, cd_sleeps, cd_req>>

latchVars == <<l_n, l_count, l_owner, l_waitset, l_pc, l_done>>

auxVars == <<silent, cadVars, latchVars>>

vars == <<portOpen, chVars, sessions, mefVars, mgVars, probeVars, auxVars, coVars>>

----------------------------------------------------------------------------
(* Bounds of the model *)

\* longest host list handed to check_hosts
MaxHosts == 2
\* largest retry argument (maxAttempts) tried
MaxRetry == 2
\* probes of one host that are counted; later ones are "MaxProbes or later"
MaxProbes == MaxRetry + 2

\* most sessions the manager holds
MaxSessions == 2
\* poll cycles of monitor_graph that are followed
MaxCycles == 2

HostNames == <<"h1", "h2", "h3", "h4", "h5">>
\* the hosts of the cluster main() runs on
Hosts == {"h1", "h2", "h3", "h4"}
\* the hosts a lone call of check_hosts is tried on
HostsCH == { HostNames[i] : i \in 1..MaxHosts }
\* the host whose manager the monitors poll
MonHost == "h3"
\* the node managers a session runs on
Nodes == {"h1", "h2"}
SessionIds == {"s1", "s2"}

\* the value check_and_add returns for a host it gave up on
None == "None"

Min(a, b) == IF a < b THEN a ELSE b

\* the lists of distinct hosts of length at most n
InjSeqs(S, n) ==
    { s \in UNION { [1..k -> S] : k \in 0..n } :
        \A i, j \in DOMAIN s : i # j => s[i] # s[j] }

----------------------------------------------------------------------------
(* Host Health Prober: check_host and check_hosts *)

\* multiprocessing.pool.ThreadPool(min(50, len(ips)))
POOL_MAX == 50
PoolSize(ips) == Min(POOL_MAX, Len(ips))

\* utils.portIsOpen(host, port, timeout): a connection could be opened
PortIsOpen(host) == portOpen[host]

\* check_host without session probing
CheckHost(host) == PortIsOpen(host)

\* writeToRemotePort re-raises every socket.error that is not ECONNREFUSED:
\* connecting to a host no route leads to raises instead of returning
Raises(host) == host \in unreachable

\* "ntries -= 0" after a failed attempt
NtriesAfterFailure(n) == n - 0

\* [ip for ip in up if ip]: up is in input order whatever order the workers
\* finished in (order is the completion order, which the code does not use)
RECURSIVE CollectFrom(_, _)
CollectFrom(up, k) ==
    IF k > Len(up) THEN <<>>
    ELSE IF up[k] # None THEN <<up[k]>> \o CollectFrom(up, k + 1)
    ELSE CollectFrom(up, k + 1)

RECURSIVE CollectInOrder(_, _, _)
CollectInOrder(up, order, k) ==
    IF k > Len(order) THEN <<>>
    ELSE IF up[order[k]] # None
         THEN <<up[order[k]]>> \o CollectInOrder(up, order, k + 1)
         ELSE CollectInOrder(up, order, k + 1)

CollectUpUnordered(up, order) == CollectInOrder(up, order, 1)

CollectUp(up, order) == CollectFrom(up, 1)

restOfCH == <<portOpen, sessions, mefVars, mgVars, probeVars, auxVars, coVars>>

Running == { i \in DOMAIN ch_task : ch_task[i] = "running" }

\* the state of a call of check_hosts(ips, port, retry=retry) at its entry
CheckHostsEntry(ips, retry) ==
    /\ ch_pc' = "call"
    /\ ch_ips' = ips
    /\ ch_retry' = retry
    /\ ch_task' = [i \in DOMAIN ips |-> "queued"]
    /\ ch_ntries' = [i \in DOMAIN ips |-> 0]
    /\ ch_nprobes' = [i \in DOMAIN ips |-> 0]
    /\ ch_firstOK' = [i \in DOMAIN ips |-> 0]
    /\ ch_up' = [i \in DOMAIN ips |-> None]
    /\ ch_order' = <<>>
    /\ ch_result' = <<>>

\* tp = ThreadPool(min(50, len(ips))): a pool of no threads is refused
\* (ValueError), which leaves check_hosts; otherwise tp.map queues one task
\* per host
ThreadPoolCreate ==
    /\ ch_pc = "call"
    /\ ch_pc' = IF PoolSize(ch_ips) < 1 THEN "raised" ELSE "map"
    /\ UNCHANGED <<ch_ips, ch_retry, ch_task, ch_ntries, ch_nprobes,
                   ch_firstOK, ch_up, ch_order, ch_result>>
    /\ UNCHANGED restOfCH

\* a free pool thread takes the next queued task and enters check_and_add:
\* ntries = retry
WorkerTake(i) ==
    /\ ch_pc = "map"
    /\ ch_task[i] = "queued"
    /\ \A j \in DOMAIN ch_task : j < i => ch_task[j] # "queued"
    /\ Cardinality(Running) < PoolSize(ch_ips)
    /\ ch_task' = [ch_task EXCEPT ![i] = "running"]
    /\ ch_ntries' = [ch_ntries EXCEPT ![i] = ch_retry]
    /\ UNCHANGED <<ch_pc, ch_ips, ch_retry, ch_nprobes, ch_firstOK, ch_up,
                   ch_order, ch_result>>
    /\ UNCHANGED restOfCH

\* one evaluation of "while ntries:" and of its body in check_and_add
CheckAndAdd(i) ==
    /\ ch_pc = "map"
    /\ ch_task[i] = "running"
    /\ IF ch_ntries[i] = 0
       THEN \* return None
            /\ ch_task' = [ch_task EXCEPT ![i] = "done"]
            /\ ch_order' = Append(ch_order, i)
            /\ UNCHANGED <<ch_up, ch_ntries, ch_nprobes, ch_firstOK>>
            /\ UNCHANGED ch_pc
       ELSE IF Raises(ch_ips[i])
       THEN \* the exception leaves check_and_add; tp.map re-raises it in
            \* the caller, which leaves check_hosts with the pool unjoined
            /\ ch_task' = [ch_task EXCEPT ![i] = "raised"]
            /\ ch_pc' = "raised"
            /\ ch_nprobes' = [ch_nprobes EXCEPT
                                ![i] = Min(ch_nprobes[i] + 1, MaxProbes)]
            /\ UNCHANGED <<ch_up, ch_order, ch_ntries, ch_firstOK>>
       ELSE IF CheckHost(ch_ips[i])
       THEN \* return ip
            /\ ch_up' = [ch_up EXCEPT ![i] = ch_ips[i]]
            /\ ch_task' = [ch_task EXCEPT ![i] = "done"]
            /\ ch_order' = Append(ch_order, i)
            /\ ch_nprobes' = [ch_nprobes EXCEPT
                                ![i] = Min(ch_nprobes[i] + 1, MaxProbes)]
            /\ ch_firstOK' = [ch_firstOK EXCEPT
                                ![i] = Min(ch_nprobes[i] + 1, MaxProbes)]
            /\ UNCHANGED <<ch_ntries, ch_pc>>
       ELSE \* warning logged; ntries -= 0
            /\ ch_ntries' = [ch_ntries EXCEPT
                                ![i] = NtriesAfterFailure(ch_ntries[i])]
            /\ ch_nprobes' = [ch_nprobes EXCEPT
                                ![i] = Min(ch_nprobes[i] + 1, MaxProbes)]
            /\ UNCHANGED <<ch_up, ch_task, ch_order, ch_firstOK, ch_pc>>
    /\ UNCHANGED <<ch_ips, ch_retry, ch_result>>
    /\ UNCHANGED restOfCH

\* tp.map blocks until every task has delivered its result
SomeTaskDone(task) == \E i \in DOMAIN task : task[i] = "done"

MapComplete(task) == \A i \in DOMAIN task : task[i] = "done"

\* tp.map returns once every task is done; tp.close(); tp.join(); the
\* comprehension builds the returned list
CheckHostsReturn ==
    /\ ch_pc = "map"
    /\ MapComplete(ch_task)
    /\ ch_result' = CollectUp(ch_up, ch_order)
    /\ ch_pc' = "returned"
    /\ UNCHANGED <<ch_ips, ch_retry, ch_task, ch_ntries, ch_nprobes,
                   ch_firstOK, ch_up, ch_order>>
    /\ UNCHANGED restOfCH

\* the environment: a host's port starts or stops accepting connections
\* (followed while the host is being probed)
HostFlip(h) ==
    /\ portOpen' = [portOpen EXCEPT ![h] = ~portOpen[h]]
    /\ UNCHANGED <<chVars, sessions, mefVars, mgVars, probeVars, auxVars, coVars>>

\* check_hosts is not running
ChIdle ==
    /\ ch_pc = "idle"
    /\ ch_ips = <<>>
    /\ ch_retry = 0
    /\ ch_task = <<>>
    /\ ch_ntries = <<>>
    /\ ch_nprobes = <<>>
    /\ ch_firstOK = <<>>
    /\ ch_up = <<>>
    /\ ch_order = <<>>
    /\ ch_result = <<>>

\* no lone call of check_host is followed
PrIdle ==
    /\ pr_pc = "idle"
    /\ pr_session = FALSE
    /\ pr_timeout = 0
    /\ pr_elapsed = 0
    /\ pr_result = "none"
    /\ nm_sessions = {}

\* no poll loop is timed
CadIdle ==
    /\ cd_pc = "idle"
    /\ cd_n = 0
    /\ cd_i = 0
    /\ cd_now = 0
    /\ cd_start = 0
    /\ cd_work = 0
    /\ cd_sleeps = 0
    /\ cd_req = 0

\* no latch exists
LatchIdle ==
    /\ l_n = 0
    /\ l_count = 0
    /\ l_owner = {}
    /\ l_waitset = {}
    /\ l_pc = <<>>
    /\ l_done = 0

AuxIdle == silent = {} /\ CadIdle /\ LatchIdle

\* neither monitor is running
MefIdle == mef_pc = "idle" /\ mef_snap = <<>> /\ mef_i = 0

MgIdle ==
    /\ mg_pc = "idle"
    /\ mg_snap = <<>>
    /\ mg_i = 0
    /\ mg_cycles = 0
    /\ graph_dict = {}
    /\ gfile = <<>>
    /\ sfile = <<>>
    /\ dirExists = TRUE

\* the value of pg when get_pg returned nothing
NoGraph == [kind |-> "None"]

\* main() is not running
Procs == {"hl", "h2", "h3"}

CoIdle ==
    /\ opts = <<>>
    /\ pc = [p \in Procs |-> "absent"]
    /\ gp_todo = <<>>
    /\ gp_called = <<>>
    /\ pgt = NoGraph
    /\ pg = NoGraph
    /\ nm_proc = [p \in Procs |-> None]
    /\ bg_pc = "none"
    /\ bg_probed = "none"
    /\ mgrProc = [h \in Hosts |-> "none"]
    /\ dimNodes = [h \in Hosts |-> <<>>]
    /\ dimStarts = [p \in Procs |-> 0]
    /\ mmStarts = 0
    /\ bgTasks = 0
    /\ termCalls = 0
    /\ submitCalls = 0
    /\ chan = [h \in Hosts |-> <<>>]
    /\ sent = [h \in Hosts |-> <<>>]
    /\ received = [h \in Hosts |-> <<>>]
    /\ setup = [p \in Procs |-> {}]

InitCH ==
    /\ portOpen \in [Hosts \cup HostsCH -> BOOLEAN]
    /\ \A h \in Hosts \ HostsCH : ~portOpen[h]
    /\ ch_pc = "call"
    /\ ch_ips \in InjSeqs(HostsCH, MaxHosts)
    /\ ch_retry \in 1..MaxRetry
    /\ ch_task = [i \in DOMAIN ch_ips |-> "queued"]
    /\ ch_ntries = [i \in DOMAIN ch_ips |-> 0]
    /\ ch_nprobes = [i \in DOMAIN ch_ips |-> 0]
    /\ ch_firstOK = [i \in DOMAIN ch_ips |-> 0]
    /\ ch_up = [i \in DOMAIN ch_ips |-> None]
    /\ ch_order = <<>>
    /\ ch_result = <<>>
    /\ sessions = <<>>
    /\ MefIdle
    /\ MgIdle
    /\ CoIdle
    /\ unreachable \in SUBSET HostsCH
    /\ PrIdle
    /\ AuxIdle

NextCH ==
    \/ ThreadPoolCreate
    \/ \E i \in DOMAIN ch_ips : WorkerTake(i)
    \/ \E i \in DOMAIN ch_ips : CheckAndAdd(i)
    \/ CheckHostsReturn
    \/ \E i \in Running : HostFlip(ch_ips[i])

SpecCH == InitCH /\ [][NextCH]_vars

----------------------------------------------------------------------------
(* check_host on its own: portIsOpen / writeToRemotePort, and the probe by  *)
(* session                                                                  *)

\* largest connection timeout tried, in clock ticks
MaxTimeout == 2
\* the clock of writeToRemotePort is followed up to here
MaxElapsed == MaxTimeout + 1

\* timeout=None: an infinite timeout
NoTimeout == 0 - 1

\* the host a lone check_host probes, and the session id it draws (uuid4)
PrHost == "h1"
ProbeSession == "u1"

\* what s.connect((host, port)) can meet on a host in its present condition:
\* the connection is accepted, refused (ECONNREFUSED), not answered at all,
\* or fails with another socket.error (EHOSTUNREACH, or any other)
ConnectOutcomes(h) ==
    IF h \in unreachable THEN {"unreachable", "other"}
    ELSE IF portOpen[h] THEN {"accepted"}
    ELSE IF h \in silent THEN {"silent"}
    ELSE {"refused"}

\* a request of the manager client is answered only by a manager that
\* listens and can be reached
ManagerAnswers(h) == portOpen[h] /\ h \notin unreachable

\* on ECONNREFUSED: "if timeout is not None: if time.time() - start >
\* timeout: return False"
GivesUpNever(timeout, now) == FALSE

GivesUp(timeout, now) == timeout # NoTimeout /\ now > timeout

restOfProbe == <<chVars, sessions, mefVars, mgVars, coVars, cadVars,
                 latchVars>>

\* check_host is left with a result, or by an exception
ProbeLeave(how, result) ==
    /\ pr_pc' = how
    /\ pr_result' = result

\* "if not check_with_session: return utils.portIsOpen(host, port, timeout)"
CheckHostCall ==
    /\ pr_pc = "call"
    /\ pr_pc' = IF pr_session THEN "create" ELSE "connect"
    /\ UNCHANGED <<unreachable, pr_session, pr_timeout, pr_elapsed,
                   pr_result, nm_sessions>>
    /\ UNCHANGED <<portOpen, silent, restOfProbe>>

\* one pass of "while True" in writeToRemotePort; d is the time the pass
\* takes (the connection attempt and the sleep of 0.1 s)
WrpAttempt ==
    /\ pr_pc = "connect"
    /\ LET timed == pr_timeout # NoTimeout /\ pr_timeout # 0
           thisTimeout == IF timed THEN pr_timeout - pr_elapsed
                          ELSE NoTimeout
       IN  IF timed /\ thisTimeout <= 0
           THEN ProbeLeave("returned", "False") /\ UNCHANGED pr_elapsed
           ELSE \E o \in ConnectOutcomes(PrHost), d \in 0..1 :
                  LET now == Min(pr_elapsed + d, MaxElapsed)
                  IN  IF o = "accepted"
                      THEN ProbeLeave("returned", "True")
                           /\ UNCHANGED pr_elapsed
                      ELSE IF o = "silent"
                      THEN \* socket.timeout when the socket has a timeout;
                           \* a blocking connect gives up with ETIMEDOUT, a
                           \* socket.error that is re-raised
                           /\ IF thisTimeout # NoTimeout
                              THEN ProbeLeave("returned", "False")
                              ELSE ProbeLeave("raised", "none")
                           /\ UNCHANGED pr_elapsed
                      ELSE IF o = "refused"
                      THEN IF GivesUp(pr_timeout, now)
                           THEN ProbeLeave("returned", "False")
                                /\ UNCHANGED pr_elapsed
                           ELSE \* time.sleep(0.1); continue
                                /\ pr_elapsed' = now
                                /\ UNCHANGED <<pr_pc, pr_result>>
                      ELSE \* "Any other error should be raised"
                           ProbeLeave("raised", "none")
                           /\ UNCHANGED pr_elapsed
    /\ UNCHANGED <<unreachable, pr_session, pr_timeout, nm_sessions>>
    /\ UNCHANGED <<portOpen, silent, restOfProbe>>

\* c.create_session(session_id) inside try/with: a failure is caught by the
\* bare except, which returns False
ProbeCreate ==
    /\ pr_pc = "create"
    /\ \E answered \in BOOLEAN :
         IF ManagerAnswers(PrHost) /\ answered
         THEN /\ nm_sessions' = nm_sessions \cup {ProbeSession}
              /\ pr_pc' = "destroy"
              /\ UNCHANGED pr_result
         ELSE ProbeLeave("returned", "False") /\ UNCHANGED nm_sessions
    /\ UNCHANGED <<unreachable, pr_session, pr_timeout, pr_elapsed>>
    /\ UNCHANGED <<portOpen, silent, restOfProbe>>

\* c.destroy_session(session_id), then "return True"; a failure is caught by
\* the same except, which returns False
ProbeDestroy ==
    /\ pr_pc = "destroy"
    /\ \E answered \in BOOLEAN :
         IF ManagerAnswers(PrHost) /\ answered
         THEN /\ nm_sessions' = nm_sessions \ {ProbeSession}
              /\ ProbeLeave("returned", "True")
         ELSE ProbeLeave("returned", "False") /\ UNCHANGED nm_sessions
    /\ UNCHANGED <<unreachable, pr_session, pr_timeout, pr_elapsed>>
    /\ UNCHANGED <<portOpen, silent, restOfProbe>>

\* the probed host's port starts or stops accepting while the probe runs
ProbedHostFlip ==
    /\ pr_pc \in {"call", "connect", "create", "destroy"}
    /\ HostFlip(PrHost)

InitProbe ==
    /\ portOpen \in [Hosts -> BOOLEAN]
    /\ \A h \in Hosts \ {PrHost} : ~portOpen[h]
    /\ unreachable \in SUBSET {PrHost}
    /\ pr_pc = "call"
    /\ pr_session \in BOOLEAN
    /\ pr_timeout \in {NoTimeout} \cup 0..MaxTimeout
    /\ pr_elapsed = 0
    /\ pr_result = "none"
    /\ nm_sessions \in SUBSET {"s1"}
    /\ silent \in SUBSET {PrHost}
    /\ CadIdle
    /\ LatchIdle
    /\ ChIdle
    /\ sessions = <<>>
    /\ MefIdle
    /\ MgIdle
    /\ CoIdle

NextProbe ==
    \/ CheckHostCall
    \/ WrpAttempt
    \/ ProbeCreate
    \/ ProbeDestroy
    \/ ProbedHostFlip

SpecProbe == InitProbe /\ [][NextProbe]_vars

\* The same with the scheduling a caller can rely on: check_host keeps
\* running, and the clock moves on while writeToRemotePort retries (every
\* pass after a refusal sleeps 0.1 s).
ClockAdvances == WrpAttempt /\ pr_elapsed' > pr_elapsed

FairSpecProbe ==
    /\ SpecProbe
    /\ WF_vars(CheckHostCall)
    /\ WF_vars(WrpAttempt)
    /\ WF_vars(ClockAdvances)

----------------------------------------------------------------------------
(* The manager's sessions, as the monitors see them through the client *)

\* session['status']: the state of the session on each participant; a
\* session may have no participant yet
StatusMaps == [Nodes -> {"RUNNING", "FINISHED"}] \cup { <<>> }

SessionLists ==
    { l \in UNION { [1..k -> [sessionId : SessionIds, status : StatusMaps]] :
                    k \in 0..MaxSessions } :
        \A i, j \in DOMAIN l : i # j => l[i].sessionId # l[j].sessionId }

\* all(s == SessionStates.FINISHED for s in session_status.values())
AllFinished(status) == \A n \in DOMAIN status : status[n] = "FINISHED"

\* a new session appears on the manager, first or last in its list
SessionAppear(id, st, front) ==
    /\ Len(sessions) < MaxSessions
    /\ \A k \in DOMAIN sessions : sessions[k].sessionId # id
    /\ sessions' = IF front
                   THEN <<[sessionId |-> id, status |-> st]>> \o sessions
                   ELSE Append(sessions, [sessionId |-> id, status |-> st])
    /\ UNCHANGED <<portOpen, chVars, mefVars, mgVars, probeVars, auxVars, coVars>>

\* a participant finishes its part of a session
SessionAdvance(k, n) ==
    /\ k \in DOMAIN sessions
    /\ n \in DOMAIN sessions[k].status
    /\ sessions[k].status[n] = "RUNNING"
    /\ sessions' = [sessions EXCEPT ![k].status[n] = "FINISHED"]
    /\ UNCHANGED <<portOpen, chVars, mefVars, mgVars, probeVars, auxVars, coVars>>

\* the manager deploys a session: its participants start running their part
SessionDeploy(k) ==
    /\ k \in DOMAIN sessions
    /\ sessions[k].status = <<>>
    /\ sessions' = [sessions EXCEPT ![k].status = [n \in Nodes |-> "RUNNING"]]
    /\ UNCHANGED <<portOpen, chVars, mefVars, mgVars, probeVars, auxVars, coVars>>

\* dc.sessions(), dc.graph_status(), dc.graph(): the REST call fails when
\* nothing listens on the manager's port
ClientFails(host) == ~portOpen[host]

----------------------------------------------------------------------------
(* monitor_execution_finished *)

\* the head of "while True": dc.sessions(), then the for loop is entered
MefFetch(host) ==
    /\ mef_pc = "fetch"
    /\ IF ClientFails(host)
       THEN mef_pc' = "raised" /\ UNCHANGED <<mef_snap, mef_i>>
       ELSE /\ mef_snap' = sessions
            /\ mef_i' = 1
            /\ mef_pc' = IF sessions = <<>> THEN "fetch" ELSE "iter"
    /\ UNCHANGED <<portOpen, chVars, sessions, mgVars, probeVars, auxVars, coVars>>

\* what the loop body decides for one listed session: return, or go on
MefVerdict(status) == IF AllFinished(status) THEN "returned" ELSE "next"

\* one pass of the for loop's body: return when this session is FINISHED
\* everywhere, otherwise sleep out the interval and take the next session
MefIter ==
    /\ mef_pc = "iter"
    /\ IF MefVerdict(mef_snap[mef_i].status) = "returned"
       THEN mef_pc' = "returned" /\ UNCHANGED mef_i
       ELSE IF mef_i < Len(mef_snap)
       THEN mef_i' = mef_i + 1 /\ UNCHANGED mef_pc
       ELSE mef_pc' = "fetch" /\ UNCHANGED mef_i
    /\ UNCHANGED <<mef_snap, portOpen, chVars, sessions, mgVars, probeVars, auxVars, coVars>>

InitMef ==
    /\ portOpen \in [Hosts -> BOOLEAN]
    /\ \A h \in Hosts \ {MonHost} : ~portOpen[h]
    /\ ChIdle
    /\ sessions \in SessionLists
    /\ mef_pc = "fetch"
    /\ mef_snap = <<>>
    /\ mef_i = 0
    /\ MgIdle
    /\ CoIdle
    /\ unreachable = {}
    /\ PrIdle
    /\ AuxIdle

NextMef ==
    \/ MefFetch(MonHost)
    \/ MefIter
    \/ \E id \in SessionIds, st \in StatusMaps, front \in BOOLEAN :
          SessionAppear(id, st, front)
    \/ \E k \in 1..MaxSessions, n \in Nodes : SessionAdvance(k, n)
    \/ \E k \in 1..MaxSessions : SessionDeploy(k)
    \/ HostFlip(MonHost)

SpecMef == InitMef /\ [][NextMef]_vars

----------------------------------------------------------------------------
(* monitor_graph *)

\* the early return when the directory of dump_path does not exist
MgStart ==
    /\ mg_pc = "start"
    /\ mg_pc' = IF dirExists THEN "fetch" ELSE "returned"
    /\ graph_dict' = {}
    /\ UNCHANGED <<mg_snap, mg_i, mg_cycles, gfile, sfile, dirExists>>
    /\ UNCHANGED <<portOpen, chVars, sessions, mefVars, coVars>>
    /\ UNCHANGED <<probeVars, auxVars>>

\* the head of "while True": dc.sessions() starts a poll cycle
MgFetch(host) ==
    /\ mg_pc = "fetch"
    /\ mg_cycles < MaxCycles
    /\ IF ClientFails(host)
       THEN mg_pc' = "raised" /\ UNCHANGED <<mg_snap, mg_i, mg_cycles>>
       ELSE /\ mg_snap' = sessions
            /\ mg_i' = 1
            /\ mg_cycles' = mg_cycles + 1
            /\ mg_pc' = IF sessions = <<>> THEN "fetch" ELSE "iter"
    /\ UNCHANGED <<graph_dict, gfile, sfile, dirExists>>
    /\ UNCHANGED <<portOpen, chVars, sessions, mefVars, coVars>>
    /\ UNCHANGED <<probeVars, auxVars>>

\* "if (ssid not in graph_dict)"
SeenNever(ssid, dict) == TRUE

NotYetSeen(ssid, dict) == ssid \notin dict

\* the for loop's body for one listed session: graph_status, on first sight
\* graph and a line of the _g log, always a line of the _s log, then the
\* sleep; a failing client call or a failing write leaves monitor_graph
MgIter(host) ==
    /\ mg_pc = "iter"
    /\ \E ioOK \in BOOLEAN :
         LET ssid == mg_snap[mg_i].sessionId
             isNew == NotYetSeen(ssid, graph_dict)
         IN  IF ClientFails(host) \/ ~ioOK
             THEN /\ mg_pc' = "raised"
                  /\ UNCHANGED <<mg_i, graph_dict, gfile, sfile>>
             ELSE /\ graph_dict' = graph_dict \cup {ssid}
                  /\ gfile' = IF isNew THEN Append(gfile, ssid) ELSE gfile
                  /\ sfile' = Append(sfile, [ssid |-> ssid, cycle |-> mg_cycles])
                  /\ IF mg_i < Len(mg_snap)
                     THEN mg_i' = mg_i + 1 /\ UNCHANGED mg_pc
                     ELSE mg_pc' = "fetch" /\ UNCHANGED mg_i
    /\ UNCHANGED <<mg_snap, mg_cycles, dirExists>>
    /\ UNCHANGED <<portOpen, chVars, sessions, mefVars, coVars>>
    /\ UNCHANGED <<probeVars, auxVars>>

InitMg ==
    /\ portOpen \in [Hosts -> BOOLEAN]
    /\ \A h \in Hosts \ {MonHost} : ~portOpen[h]
    /\ ChIdle
    /\ sessions \in SessionLists
    /\ MefIdle
    /\ mg_pc = "start"
    /\ mg_snap = <<>>
    /\ mg_i = 0
    /\ mg_cycles = 0
    /\ graph_dict = {}
    /\ gfile = <<>>
    /\ sfile = <<>>
    /\ dirExists \in BOOLEAN
    /\ CoIdle
    /\ unreachable = {}
    /\ PrIdle
    /\ AuxIdle

NextMg ==
    \/ MgStart
    \/ MgFetch(MonHost)
    \/ MgIter(MonHost)
    \/ \E id \in SessionIds, st \in StatusMaps, front \in BOOLEAN :
          SessionAppear(id, st, front)
    \/ \E k \in 1..MaxSessions, n \in Nodes : SessionAdvance(k, n)
    \/ \E k \in 1..MaxSessions : SessionDeploy(k)
    \/ HostFlip(MonHost)

SpecMg == InitMg /\ [][NextMg]_vars

----------------------------------------------------------------------------
(* The timing of the poll loop that monitor_graph and                       *)
(* monitor_execution_finished share: "while True: for session in            *)
(* dc.sessions(): stt = time.time() ... dt = time.time() - stt; if dt <     *)
(* GRAPH_MONITOR_INTERVAL: time.sleep(GRAPH_MONITOR_INTERVAL - dt)"         *)

GRAPH_MONITOR_INTERVAL == 5

\* the longest time the work on one session takes, in seconds
MaxWork == GRAPH_MONITOR_INTERVAL + 1
\* cycles are started up to this time
MaxClock == 12

\* cd_start before the first cycle
NoCycle == 0 - 1

Max(a, b) == IF a > b THEN a ELSE b

restOfCad == <<portOpen, chVars, sessions, mefVars, mgVars, probeVars, coVars,
               silent, latchVars>>

\* the head of "while True": dc.sessions() lists n sessions and the for
\* loop is entered; with none listed the while loop comes round at once
CdFetch ==
    /\ cd_pc = "fetch"
    /\ cd_now <= MaxClock
    /\ \E n \in 0..MaxSessions :
         /\ cd_n' = n
         /\ cd_pc' = IF n = 0 THEN "fetch" ELSE "body"
    /\ cd_i' = 1
    /\ cd_start' = cd_now
    /\ cd_work' = 0
    /\ cd_sleeps' = 0
    /\ UNCHANGED <<cd_now, cd_req>>
    /\ UNCHANGED restOfCad

\* the sleep the loop body asks for after working dt on a session
SleepRequested(dt, i, n) ==
    IF dt < GRAPH_MONITOR_INTERVAL THEN GRAPH_MONITOR_INTERVAL - dt ELSE 0

\* the loop body for one session: the work takes dt, then the sleep
CdBody ==
    /\ cd_pc = "body"
    /\ \E dt \in 0..MaxWork :
         LET sleep == SleepRequested(dt, cd_i, cd_n)
         IN  /\ cd_req' = sleep
             /\ cd_sleeps' = IF dt < GRAPH_MONITOR_INTERVAL
                             THEN cd_sleeps + 1 ELSE cd_sleeps
             /\ cd_now' = cd_now + dt + sleep
             /\ cd_work' = cd_work + dt
    /\ IF cd_i < cd_n
       THEN cd_i' = cd_i + 1 /\ UNCHANGED cd_pc
       ELSE cd_pc' = "fetch" /\ UNCHANGED cd_i
    /\ UNCHANGED <<cd_n, cd_start>>
    /\ UNCHANGED restOfCad

InitCadence ==
    /\ cd_pc = "fetch"
    /\ cd_n = 0
    /\ cd_i = 0
    /\ cd_now = 0
    /\ cd_start = NoCycle
    /\ cd_work = 0
    /\ cd_sleeps = 0
    /\ cd_req = 0
    /\ portOpen = [h \in Hosts |-> FALSE]
    /\ ChIdle
    /\ sessions = <<>>
    /\ MefIdle
    /\ MgIdle
    /\ CoIdle
    /\ unreachable = {}
    /\ PrIdle
    /\ silent = {}
    /\ LatchIdle

NextCadence == CdFetch \/ CdBody

SpecCadence == InitCadence /\ [][NextCadence]_vars

----------------------------------------------------------------------------
(* utils.CountDownLatch: count, and a threading.Condition whose lock        *)
(* guards it                                                                *)

\* largest count a latch is built with, which is also the number of threads
\* that call countDown() once each; and the threads that call await()
MaxCount == 2
MaxWaiters == 2

WaiterThreads == {"w"} \X (1..MaxWaiters)
CounterThreads == {"c"} \X (1..MaxCount)
LatchThreads == WaiterThreads \cup CounterThreads

restOfLatch == <<portOpen, chVars, sessions, mefVars, mgVars, probeVars,
                 coVars, silent, cadVars>>

\* self.lock.acquire(), at the head of countDown() and of await(), and on
\* the way out of self.lock.wait() after a notification
LockAcquire(t) ==
    /\ l_pc[t] \in {"start", "woken"}
    /\ l_owner = {}
    /\ l_owner' = {t}
    /\ l_pc' = [l_pc EXCEPT ![t] = IF t \in WaiterThreads THEN "check"
                                   ELSE "dec"]
    /\ UNCHANGED <<l_n, l_count, l_waitset, l_done>>
    /\ UNCHANGED restOfLatch

\* "if self.count <= 0: self.lock.notifyAll()"
Notifies(count) == count <= 0

\* countDown() with the lock held: self.count -= 1, and notifyAll() wakes
\* every thread inside wait() once the count is used up
CountDownBody(t) ==
    /\ l_pc[t] = "dec"
    /\ l_count' = l_count - 1
    /\ IF Notifies(l_count - 1)
       THEN /\ l_waitset' = {}
            /\ l_pc' = [u \in LatchThreads |->
                          IF u = t THEN "release"
                          ELSE IF u \in l_waitset THEN "woken"
                          ELSE l_pc[u]]
       ELSE /\ l_pc' = [l_pc EXCEPT ![t] = "release"]
            /\ UNCHANGED l_waitset
    /\ UNCHANGED <<l_n, l_owner, l_done>>
    /\ UNCHANGED restOfLatch

\* "while self.count > 0"
WaitsNever(count) == FALSE

ShouldWait(count) == count > 0

\* await() with the lock held: one test of the loop condition; wait()
\* gives the lock up and parks the thread
AwaitCheck(t) ==
    /\ l_pc[t] = "check"
    /\ IF ShouldWait(l_count)
       THEN /\ l_owner' = {}
            /\ l_waitset' = l_waitset \cup {t}
            /\ l_pc' = [l_pc EXCEPT ![t] = "waiting"]
       ELSE /\ l_pc' = [l_pc EXCEPT ![t] = "release"]
            /\ UNCHANGED <<l_owner, l_waitset>>
    /\ UNCHANGED <<l_n, l_count, l_done>>
    /\ UNCHANGED restOfLatch

\* self.lock.release(): countDown() or await() returns
LockRelease(t) ==
    /\ l_pc[t] = "release"
    /\ l_owner' = {}
    /\ l_pc' = [l_pc EXCEPT ![t] = IF t \in WaiterThreads THEN "returned"
                                   ELSE "done"]
    /\ l_done' = IF t \in CounterThreads THEN l_done + 1 ELSE l_done
    /\ UNCHANGED <<l_n, l_count, l_waitset>>
    /\ UNCHANGED restOfLatch

\* CountDownLatch(count)
InitLatch ==
    /\ l_n \in 1..MaxCount
    /\ l_count = l_n
    /\ l_owner = {}
    /\ l_waitset = {}
    /\ l_pc = [t \in LatchThreads |-> "start"]
    /\ l_done = 0
    /\ portOpen = [h \in Hosts |-> FALSE]
    /\ ChIdle
    /\ sessions = <<>>
    /\ MefIdle
    /\ MgIdle
    /\ CoIdle
    /\ unreachable = {}
    /\ PrIdle
    /\ silent = {}
    /\ CadIdle

LatchStep(t) ==
    \/ LockAcquire(t)
    \/ CountDownBody(t)
    \/ AwaitCheck(t)
    \/ LockRelease(t)

NextLatch == \E t \in LatchThreads : LatchStep(t)

\* every thread that can take its next step eventually does
FairSpecLatch ==
    /\ InitLatch
    /\ [][NextLatch]_vars
    /\ \A t \in LatchThreads : WF_vars(LatchStep(t))

----------------------------------------------------------------------------
(* The cluster topology and the collaborators main() calls *)

\* the functions a modifier name may resolve to: m1 and m2 change the graph
\* they are given and return it, f1 leaves its argument alone and returns a
\* changed copy; "bad" resolves to nothing
ModNames == {"m1", "m2", "f1", "bad", ""}
InPlace == {"m1", "m2"}

\* --pg-modifiers: not given (the option is then None), or a colon-separated
\* list of modifier specifications; names is what split(':') makes of it,
\* which for the empty string is the list of one empty name
PgModifierValues ==
    { [given |-> FALSE, names |-> <<>>],
      [given |-> TRUE, names |-> <<"">>],
      [given |-> TRUE, names |-> <<"m1">>],
      [given |-> TRUE, names |-> <<"m1", "m2">>],
      [given |-> TRUE, names |-> <<"m1", "bad">>],
      [given |-> TRUE, names |-> <<"bad", "m1">>],
      [given |-> TRUE, names |-> <<"f1", "m1">>] }

\* remote.nm_ips and remote.dim_ips: with one island h3 hosts the island
\* manager over the node managers h1 and h2; with two islands h2 and h3 host
\* the island managers, h1 the node manager and h4 the master manager
NmIps(o) == IF o.num_islands = 1 THEN <<"h1", "h2">> ELSE <<"h1">>
DimIps(o) == IF o.num_islands = 1 THEN <<"h3">> ELSE <<"h2", "h3">>
Members == {"h2", "h3"}
NmHosts == {"h1", "h2"}

\* the address each process's 'localhost' stands for
LocalHost(p) ==
    IF p # "hl" THEN p ELSE IF opts.num_islands = 1 THEN "h3" ELSE "h4"

\* the branch of main() a process takes (is_nm and is_proxy processes are
\* not followed)
Role(p) ==
    IF p # "hl" THEN "MultiIslandMember"
    ELSE IF opts.num_islands = 1 THEN "SingleIslandOwner"
    ELSE "MultiIslandHighest"

\* utils.get_symbol(parts[0]) finds the function
Resolves(name) == name \notin {"bad", ""}

\* func(pgt, *args, **kwargs): the graph with the modifier's change made
ApplyMod(g, name) == [g EXCEPT !.mods = Append(@, name)]

\* modify_pg(pgt, modifier): arg is the object passed as it is after the
\* call, ret the value modify_pg returns
ModifyPg(g, name) ==
    IF name \in InPlace
    THEN [arg |-> ApplyMod(g, name), ret |-> ApplyMod(g, name)]
    ELSE [arg |-> g, ret |-> ApplyMod(g, name)]

\* the graph get_pg goes on with after "modify_pg(pgt, modifier)": the value
\* returned is dropped, pgt still names the object that was passed
GraphAfterCall(call) == call.arg

\* tool.resource_map(pgt, dims + nms, pip_name, num_dims): the graph with its
\* drops placed on the hosts given, the first num_dims of them islands
ResourceMap(graph, hosts, num_dims) ==
    [graph |-> graph, hosts |-> hosts, num_dims |-> num_dims]

\* the node managers a mapped graph places under its k-th island
RECURSIVE NodesFrom(_, _, _)
NodesFrom(g, k, i) ==
    IF i > Len(g.hosts) THEN <<>>
    ELSE IF ((i - g.num_dims - 1) % g.num_dims) + 1 = k
         THEN <<g.hosts[i]>> \o NodesFrom(g, k, i + 1)
         ELSE NodesFrom(g, k, i + 1)

IslandNodes(g, k) == NodesFrom(g, k, g.num_dims + 1)

Goto(p, l) == pc' = [pc EXCEPT ![p] = l]

Exited == {"exit0", "exit2", "crashed", "interrupted", "exited"}

----------------------------------------------------------------------------
(* main(): command-line validation and set-up *)

\* the checks after parse_args: --check-interfaces exits 0, parser.error
\* exits 2
ValidationWithoutProxyCheck(o) ==
    IF o.check_interfaces THEN "exit0"
    ELSE IF o.logical_graph = o.physical_graph THEN "exit2"
    ELSE IF ~o.graph_exists THEN "exit2"
    ELSE "ok"

Validation(o) ==
    IF o.check_interfaces THEN "exit0"
    ELSE IF o.logical_graph = o.physical_graph THEN "exit2"
    ELSE IF ~o.graph_exists THEN "exit2"
    ELSE IF o.monitor_host /\ o.num_islands > 1 THEN "exit2"
    ELSE "ok"

\* remote = get_remote(options); os.makedirs(log_dir): reached only when
\* no check has left main()
SetUp(verdict) == IF verdict = "ok" THEN {"remote", "log_dir"} ELSE {}

\* parse_args to logging set-up, then the role's branch is entered
Validate(p) ==
    /\ pc[p] = "start"
    /\ Goto(p, IF Validation(opts) # "ok" THEN Validation(opts)
               ELSE IF Role(p) = "MultiIslandMember" THEN "recv"
               ELSE "get_pg")
    /\ setup' = [setup EXCEPT ![p] = SetUp(Validation(opts))]
    /\ UNCHANGED <<opts, gp_todo, gp_called, pgt, pg, nm_proc, bg_pc,
                   bg_probed, mgrProc, dimNodes, dimStarts, mmStarts,
                   bgTasks, termCalls, submitCalls, chan, sent, received>>
    /\ UNCHANGED <<portOpen, chVars, sessions, mefVars, mgVars, probeVars, auxVars>>

\* KeyboardInterrupt in the main thread while it supervises the island
\* manager it started: main() has no handler, the process ends there
Interrupt(p) ==
    /\ pc[p] \in {"mef", "sleep"}
    /\ Goto(p, "interrupted")
    /\ UNCHANGED <<setup, opts, gp_todo, gp_called, pgt, pg, nm_proc, bg_pc,
                   bg_probed, mgrProc, dimNodes, dimStarts, mmStarts,
                   bgTasks, termCalls, submitCalls, chan, sent, received>>
    /\ UNCHANGED <<portOpen, chVars, sessions, mefVars, mgVars, probeVars, auxVars>>

----------------------------------------------------------------------------
(* get_pg *)

\* the graph is unrolled and partitioned, or loaded; then
\* opts.pg_modifiers.split(':') - which fails when the option was not given
GetPgLoad(p) ==
    /\ pc[p] = "get_pg"
    /\ pgt' = [kind |-> IF opts.logical_graph THEN "logical" ELSE "physical",
               partitions |-> Len(NmIps(opts)) + Len(DimIps(opts)),
               mods |-> <<>>]
    /\ IF ~opts.pg_modifiers.given
       THEN Goto(p, "crashed") /\ UNCHANGED gp_todo
       ELSE Goto(p, "gp_mods") /\ gp_todo' = opts.pg_modifiers.names
    /\ UNCHANGED <<setup, opts, gp_called, pg, nm_proc, bg_pc, bg_probed, mgrProc,
                   dimNodes, dimStarts, mmStarts, bgTasks, termCalls,
                   submitCalls, chan, sent, received>>
    /\ UNCHANGED <<portOpen, chVars, sessions, mefVars, mgVars, probeVars, auxVars>>

\* one pass of "for modifier in ...: modify_pg(pgt, modifier)"; after the
\* last, check_hosts(nms, NODE_DEFAULT_REST_PORT, ...) is called with the
\* default retry=1
DEFAULT_RETRY == 1
GetPgModify(p) ==
    /\ pc[p] = "gp_mods"
    /\ IF gp_todo = <<>>
       THEN /\ CheckHostsEntry(NmIps(opts), DEFAULT_RETRY)
            /\ Goto(p, "gp_check")
            /\ UNCHANGED <<gp_todo, gp_called, pgt>>
       ELSE /\ IF Resolves(Head(gp_todo))
               THEN /\ gp_called' = Append(gp_called, Head(gp_todo))
                    /\ gp_todo' = Tail(gp_todo)
                    /\ pgt' = GraphAfterCall(ModifyPg(pgt, Head(gp_todo)))
                    /\ UNCHANGED pc
               ELSE /\ Goto(p, "crashed")
                    /\ UNCHANGED <<gp_todo, gp_called, pgt>>
            /\ UNCHANGED chVars
    /\ UNCHANGED <<setup, opts, pg, nm_proc, bg_pc, bg_probed, mgrProc,
                   dimNodes, dimStarts, mmStarts, bgTasks, termCalls,
                   submitCalls, chan, sent, received>>
    /\ UNCHANGED <<portOpen, sessions, mefVars, mgVars, probeVars, auxVars>>

\* check_hosts has returned: resource_map onto dims + nms, pg.json written,
\* and main() goes on with the graph
GetPgMap(p) ==
    /\ pc[p] = "gp_check"
    /\ ch_pc \in {"returned", "raised"}
    /\ IF ch_pc = "raised"
       THEN Goto(p, "crashed") /\ UNCHANGED pg
       ELSE /\ pg' = ResourceMap(pgt, DimIps(opts) \o ch_result,
                                 Len(DimIps(opts)))
            /\ Goto(p, IF Role(p) = "SingleIslandOwner" THEN "spawn"
                       ELSE "send")
    /\ UNCHANGED <<setup, opts, gp_todo, gp_called, pgt, nm_proc, bg_pc, bg_probed,
                   mgrProc, dimNodes, dimStarts, mmStarts, bgTasks,
                   termCalls, submitCalls, chan, sent, received>>
    /\ UNCHANGED <<portOpen, chVars, sessions, mefVars, mgVars, probeVars, auxVars>>

----------------------------------------------------------------------------
(* main(): the SingleIslandOwner branch *)

\* "if pg:"
PgNever(g) == FALSE

PgTruthy(g) == g # NoGraph

\* if pg: threading.Thread(target=submit_and_monitor).start()
Spawn(p) ==
    /\ pc[p] = "spawn"
    /\ IF PgTruthy(pg)
       THEN bgTasks' = bgTasks + 1 /\ bg_pc' = "submit"
       ELSE UNCHANGED <<bgTasks, bg_pc>>
    /\ Goto(p, "start_dim")
    /\ UNCHANGED <<setup, opts, gp_todo, gp_called, pgt, pg, nm_proc, bg_probed,
                   mgrProc, dimNodes, dimStarts, mmStarts, termCalls,
                   submitCalls, chan, sent, received>>
    /\ UNCHANGED <<portOpen, chVars, sessions, mefVars, mgVars, probeVars, auxVars>>

\* nm_proc = start_dim(remote.nm_ips, ...): the island manager process is
\* started, and monitor_execution_finished is entered
StartDimOwner(p) ==
    /\ pc[p] = "start_dim"
    /\ Role(p) = "SingleIslandOwner"
    /\ mgrProc' = [mgrProc EXCEPT ![LocalHost(p)] = "started"]
    /\ dimNodes' = [dimNodes EXCEPT ![LocalHost(p)] = NmIps(opts)]
    /\ dimStarts' = [dimStarts EXCEPT ![p] = dimStarts[p] + 1]
    /\ nm_proc' = [nm_proc EXCEPT ![p] = LocalHost(p)]
    /\ Goto(p, "mef")
    /\ mef_pc' = "fetch"
    /\ UNCHANGED <<mef_snap, mef_i>>
    /\ UNCHANGED <<setup, opts, gp_todo, gp_called, pgt, pg, bg_pc, bg_probed,
                   mmStarts, bgTasks, termCalls, submitCalls, chan, sent,
                   received>>
    /\ UNCHANGED <<portOpen, chVars, sessions, mgVars, probeVars, auxVars>>

\* monitor_execution_finished has returned, or an exception left it and
\* with it main()
MefDone(p) ==
    /\ pc[p] = "mef"
    /\ mef_pc \in {"returned", "raised"}
    /\ Goto(p, IF mef_pc = "returned" THEN "sleep" ELSE "crashed")
    /\ UNCHANGED <<setup, opts, gp_todo, gp_called, pgt, pg, nm_proc, bg_pc,
                   bg_probed, mgrProc, dimNodes, dimStarts, mmStarts,
                   bgTasks, termCalls, submitCalls, chan, sent, received>>
    /\ UNCHANGED <<portOpen, chVars, sessions, mefVars, mgVars, probeVars, auxVars>>

\* time.sleep(options.sleep_after_execution)
SleepAfterExecution(p) ==
    /\ pc[p] = "sleep"
    /\ Goto(p, "teardown")
    /\ UNCHANGED <<setup, opts, gp_todo, gp_called, pgt, pg, nm_proc, bg_pc,
                   bg_probed, mgrProc, dimNodes, dimStarts, mmStarts,
                   bgTasks, termCalls, submitCalls, chan, sent, received>>
    /\ UNCHANGED <<portOpen, chVars, sessions, mefVars, mgVars, probeVars, auxVars>>

\* if nm_proc is not None: utils.terminate_or_kill(nm_proc, 5); main() ends
Teardown(p) ==
    /\ pc[p] = "teardown"
    /\ IF nm_proc[p] # None
       THEN /\ termCalls' = termCalls + 1
            /\ mgrProc' = [mgrProc EXCEPT ![nm_proc[p]] = "terminated"]
            /\ portOpen' = [portOpen EXCEPT ![nm_proc[p]] = FALSE]
       ELSE UNCHANGED <<termCalls, mgrProc, portOpen>>
    /\ Goto(p, "exited")
    /\ UNCHANGED <<setup, opts, gp_todo, gp_called, pgt, pg, nm_proc, bg_pc,
                   bg_probed, dimNodes, dimStarts, mmStarts, bgTasks,
                   submitCalls, chan, sent, received>>
    /\ UNCHANGED <<chVars, sessions, mefVars, mgVars, probeVars, auxVars>>

\* a started manager process begins to listen on its port
ManagerUp(h) ==
    /\ mgrProc[h] = "started"
    /\ mgrProc' = [mgrProc EXCEPT ![h] = "up"]
    /\ portOpen' = [portOpen EXCEPT ![h] = TRUE]
    /\ UNCHANGED <<setup, opts, pc, gp_todo, gp_called, pgt, pg, nm_proc, bg_pc,
                   bg_probed, dimNodes, dimStarts, mmStarts, bgTasks,
                   termCalls, submitCalls, chan, sent, received>>
    /\ UNCHANGED <<chVars, sessions, mefVars, mgVars, probeVars, auxVars>>

----------------------------------------------------------------------------
(* The detached thread: submit_and_monitor, and submit *)

\* tool.submit(host, port, pg): a session for the graph is created on the
\* manager; it has no participant status until the manager has deployed it
ToolSubmit(list, g) ==
    Append(list, [sessionId |-> "s1", status |-> <<>>])

\* submit(): check_host('localhost', MASTER_DEFAULT_REST_PORT, timeout=...);
\* a failed check is logged as a warning and submit() goes on
BgProbe ==
    /\ bg_pc = "probe"
    /\ bg_probed' = IF CheckHost(LocalHost("hl")) THEN "ok" ELSE "failed"
    /\ bg_pc' = "submit"
    /\ UNCHANGED <<setup, opts, pc, gp_todo, gp_called, pgt, pg, nm_proc, mgrProc,
                   dimNodes, dimStarts, mmStarts, bgTasks, termCalls,
                   submitCalls, chan, sent, received>>
    /\ UNCHANGED <<portOpen, chVars, sessions, mefVars, mgVars, probeVars, auxVars>>

\* tool.submit('localhost', port, pg) in the thread: it fails, and ends the
\* thread, when the manager does not answer; in submit_and_monitor
\* monitor_graph follows when --dump was given
BgSubmit ==
    /\ bg_pc = "submit"
    /\ submitCalls' = submitCalls + 1
    /\ IF ClientFails(LocalHost("hl"))
       THEN bg_pc' = "failed" /\ UNCHANGED <<sessions, mg_pc>>
       ELSE /\ sessions' = ToolSubmit(sessions, pg)
            /\ IF Role("hl") = "SingleIslandOwner" /\ opts.dump
               THEN bg_pc' = "monitor" /\ mg_pc' = "start"
               ELSE bg_pc' = "done" /\ UNCHANGED mg_pc
    /\ UNCHANGED <<mg_snap, mg_i, mg_cycles, graph_dict, gfile, sfile,
                   dirExists>>
    /\ UNCHANGED <<setup, opts, pc, gp_todo, gp_called, pgt, pg, nm_proc, bg_probed,
                   mgrProc, dimNodes, dimStarts, mmStarts, bgTasks,
                   termCalls, chan, sent, received>>
    /\ UNCHANGED <<portOpen, chVars, mefVars>>
    /\ UNCHANGED <<probeVars, auxVars>>

\* monitor_graph is left, by its early return or by an exception, and the
\* thread ends
BgMonitorEnd ==
    /\ bg_pc = "monitor"
    /\ mg_pc \in {"returned", "raised"}
    /\ bg_pc' = IF mg_pc = "raised" THEN "failed" ELSE "done"
    /\ UNCHANGED <<setup, opts, pc, gp_todo, gp_called, pgt, pg, nm_proc, bg_probed,
                   mgrProc, dimNodes, dimStarts, mmStarts, bgTasks,
                   termCalls, submitCalls, chan, sent, received>>
    /\ UNCHANGED <<portOpen, chVars, sessions, mefVars, mgVars, probeVars, auxVars>>

----------------------------------------------------------------------------
(* main(): the MultiIslandHighest and MultiIslandMember branches *)

\* the position of island host d in remote.dim_ips
DimIndex(d) == CHOOSE k \in DOMAIN DimIps(opts) : DimIps(opts)[k] = d

\* remote.send_dim_nodes(pg): each island-level peer is sent the node
\* managers the graph places under it
SendDimNodes(p) ==
    /\ pc[p] = "send"
    /\ chan' = [h \in Hosts |->
                  IF h \in Members
                  THEN Append(chan[h], IslandNodes(pg, DimIndex(h)))
                  ELSE chan[h]]
    /\ sent' = [h \in Hosts |->
                  IF h \in Members
                  THEN Append(sent[h], IslandNodes(pg, DimIndex(h)))
                  ELSE sent[h]]
    /\ Goto(p, "check_dims")
    /\ UNCHANGED <<setup, opts, gp_todo, gp_called, pgt, pg, nm_proc, bg_pc,
                   bg_probed, mgrProc, dimNodes, dimStarts, mmStarts,
                   bgTasks, termCalls, submitCalls, received>>
    /\ UNCHANGED <<portOpen, chVars, sessions, mefVars, mgVars, probeVars, auxVars>>

\* check_hosts(remote.dim_ips, ISLAND_DEFAULT_REST_PORT, ..., retry=10)
DIM_RETRY == 10
CheckDims(p) ==
    /\ pc[p] = "check_dims"
    /\ CheckHostsEntry(DimIps(opts), DIM_RETRY)
    /\ Goto(p, "cd_check")
    /\ UNCHANGED <<setup, opts, gp_todo, gp_called, pgt, pg, nm_proc, bg_pc,
                   bg_probed, mgrProc, dimNodes, dimStarts, mmStarts,
                   bgTasks, termCalls, submitCalls, chan, sent, received>>
    /\ UNCHANGED <<portOpen, sessions, mefVars, mgVars, probeVars, auxVars>>

\* check_hosts has returned (a warning is logged when fewer islands are up):
\* threading.Thread(target=submit).start()
SpawnSubmit(p) ==
    /\ pc[p] = "cd_check"
    /\ ch_pc \in {"returned", "raised"}
    /\ IF ch_pc = "raised"
       THEN Goto(p, "crashed") /\ UNCHANGED <<bgTasks, bg_pc>>
       ELSE /\ bgTasks' = bgTasks + 1
            /\ bg_pc' = "probe"
            /\ Goto(p, "start_mm")
    /\ UNCHANGED <<setup, opts, gp_todo, gp_called, pgt, pg, nm_proc, bg_probed,
                   mgrProc, dimNodes, dimStarts, mmStarts, termCalls,
                   submitCalls, chan, sent, received>>
    /\ UNCHANGED <<portOpen, chVars, sessions, mefVars, mgVars, probeVars, auxVars>>

\* start_mm(remote.dim_ips, ...): cmdline.dlgMM runs the master manager and
\* does not return
StartMM(p) ==
    /\ pc[p] = "start_mm"
    /\ mmStarts' = mmStarts + 1
    /\ mgrProc' = [mgrProc EXCEPT ![LocalHost(p)] = "started"]
    /\ Goto(p, "mm_blocked")
    /\ UNCHANGED <<setup, opts, gp_todo, gp_called, pgt, pg, nm_proc, bg_pc,
                   bg_probed, dimNodes, dimStarts, bgTasks, termCalls,
                   submitCalls, chan, sent, received>>
    /\ UNCHANGED <<portOpen, chVars, sessions, mefVars, mgVars, probeVars, auxVars>>

\* remote.recv_dim_nodes(): blocks until the node list has arrived
RecvDimNodes(p) ==
    /\ pc[p] = "recv"
    /\ chan[p] # <<>>
    /\ received' = [received EXCEPT ![p] = Head(chan[p])]
    /\ chan' = [chan EXCEPT ![p] = Tail(chan[p])]
    /\ Goto(p, "start_dim")
    /\ UNCHANGED <<setup, opts, gp_todo, gp_called, pgt, pg, nm_proc, bg_pc,
                   bg_probed, mgrProc, dimNodes, dimStarts, mmStarts,
                   bgTasks, termCalls, submitCalls, sent>>
    /\ UNCHANGED <<portOpen, chVars, sessions, mefVars, mgVars, probeVars, auxVars>>

\* the node list start_dim is given in the member's branch
AllNodeManagers(recvd, nms) == nms

MemberDimNodes(recvd, nms) == recvd

\* proc = start_dim(remote.recv_dim_nodes(), ...), then
\* utils.wait_or_kill(proc, 1e8, period=5)
StartDimMember(p) ==
    /\ pc[p] = "start_dim"
    /\ Role(p) = "MultiIslandMember"
    /\ mgrProc' = [mgrProc EXCEPT ![p] = "started"]
    /\ dimNodes' = [dimNodes EXCEPT
                      ![p] = MemberDimNodes(received[p], NmIps(opts))]
    /\ dimStarts' = [dimStarts EXCEPT ![p] = dimStarts[p] + 1]
    /\ Goto(p, "wait_or_kill")
    /\ UNCHANGED <<setup, opts, gp_todo, gp_called, pgt, pg, nm_proc, bg_pc,
                   bg_probed, mmStarts, bgTasks, termCalls, submitCalls,
                   chan, sent, received>>
    /\ UNCHANGED <<portOpen, chVars, sessions, mefVars, mgVars, probeVars, auxVars>>

----------------------------------------------------------------------------
(* The cluster: every process runs main() with the same command line *)

OptionValues ==
    [logical_graph : BOOLEAN, physical_graph : BOOLEAN,
     graph_exists : BOOLEAN, check_interfaces : BOOLEAN,
     monitor_host : BOOLEAN, num_islands : {1, 2}, dump : BOOLEAN,
     pg_modifiers : PgModifierValues]

Init ==
    /\ opts \in OptionValues
    /\ pc = [p \in Procs |->
               IF p = "hl" \/ opts.num_islands > 1 THEN "start" ELSE "absent"]
    /\ portOpen \in [Hosts -> BOOLEAN]
    /\ \A h \in Hosts : portOpen[h] => h \in NmHosts /\ opts.num_islands = 1
    /\ ChIdle
    /\ sessions = <<>>
    /\ MefIdle
    /\ MgIdle
    /\ gp_todo = <<>>
    /\ gp_called = <<>>
    /\ pgt = NoGraph
    /\ pg = NoGraph
    /\ nm_proc = [p \in Procs |-> None]
    /\ bg_pc = "none"
    /\ bg_probed = "none"
    /\ mgrProc = [h \in Hosts |-> "none"]
    /\ dimNodes = [h \in Hosts |-> <<>>]
    /\ dimStarts = [p \in Procs |-> 0]
    /\ mmStarts = 0
    /\ bgTasks = 0
    /\ termCalls = 0
    /\ submitCalls = 0
    /\ chan = [h \in Hosts |-> <<>>]
    /\ sent = [h \in Hosts |-> <<>>]
    /\ received = [h \in Hosts |-> <<>>]
    /\ setup = [p \in Procs |-> {}]
    /\ unreachable \in SUBSET {"h1"}
    /\ PrIdle
    /\ AuxIdle

\* the steps of one call of check_hosts made by main()
CheckHostsStep ==
    \/ ThreadPoolCreate
    \/ \E i \in DOMAIN ch_ips : WorkerTake(i)
    \/ \E i \in DOMAIN ch_ips : CheckAndAdd(i)
    \/ CheckHostsReturn

\* a node manager that was still starting comes up while get_pg probes the
\* node managers
NodeManagerUp ==
    \E i \in DOMAIN NmIps(opts) :
        /\ pc["hl"] = "gp_check"
        /\ ~portOpen[NmIps(opts)[i]]
        /\ HostFlip(NmIps(opts)[i])

OwnerStep ==
    \/ Validate("hl")
    \/ GetPgLoad("hl")
    \/ GetPgModify("hl")
    \/ GetPgMap("hl")
    \/ Spawn("hl")
    \/ StartDimOwner("hl")
    \/ MefFetch(LocalHost("hl"))
    \/ MefIter
    \/ MefDone("hl")
    \/ SleepAfterExecution("hl")
    \/ Teardown("hl")

ThreadStep ==
    \/ BgSubmit
    \/ MgStart
    \/ MgFetch(LocalHost("hl"))
    \/ MgIter(LocalHost("hl"))
    \/ BgMonitorEnd

EnvStep ==
    \/ \E h \in Hosts : ManagerUp(h)
    \/ \E k \in 1..MaxSessions, n \in Nodes : SessionAdvance(k, n)
    \/ \E k \in 1..MaxSessions : SessionDeploy(k)
    \/ NodeManagerUp

NextOwner ==
    \/ OwnerStep
    \/ CheckHostsStep
    \/ ThreadStep
    \/ EnvStep
    \/ Interrupt("hl")

NextMulti ==
    \/ SendDimNodes("hl")
    \/ CheckDims("hl")
    \/ SpawnSubmit("hl")
    \/ StartMM("hl")
    \/ BgProbe
    \/ \E p \in Members : Validate(p)
    \/ \E p \in Members : RecvDimNodes(p)
    \/ \E p \in Members : StartDimMember(p)

Next == NextOwner \/ NextMulti

Spec == Init /\ [][Next]_vars

\* The single-island cluster alone, with the scheduling the threads and the
\* manager can rely on: the main thread, the pool threads, the detached
\* thread and the started manager each keep taking their next step.  No
\* fairness is assumed of node managers coming up or of an interrupt.
InitOwner == Init /\ opts.num_islands = 1

ManagerStep ==
    \/ \E h \in Hosts : ManagerUp(h)
    \/ \E k \in 1..MaxSessions, n \in Nodes : SessionAdvance(k, n)
    \/ \E k \in 1..MaxSessions : SessionDeploy(k)

FairSpecOwner ==
    /\ InitOwner
    /\ [][NextOwner]_vars
    /\ WF_vars(OwnerStep)
    /\ WF_vars(CheckHostsStep)
    /\ WF_vars(ThreadStep)
    /\ WF_vars(ManagerStep)

\* The two-island cluster alone.  The highest-level manager's main thread
\* and the pool threads of its check_hosts calls keep taking their next
\* step; nothing is assumed of the island-level peers, of the managers or of
\* the submission thread: an island host may never become healthy.
InitHighest == Init /\ opts.num_islands = 2

HighestStep ==
    \/ Validate("hl")
    \/ GetPgLoad("hl")
    \/ GetPgModify("hl")
    \/ GetPgMap("hl")
    \/ SendDimNodes("hl")
    \/ CheckDims("hl")
    \/ SpawnSubmit("hl")
    \/ StartMM("hl")

MemberStep ==
    \/ \E p \in Members : Validate(p)
    \/ \E p \in Members : RecvDimNodes(p)
    \/ \E p \in Members : StartDimMember(p)

SubmitThreadStep ==
    \/ BgProbe
    \/ BgSubmit

NextHighest ==
    \/ HighestStep
    \/ CheckHostsStep
    \/ MemberStep
    \/ SubmitThreadStep
    \/ ManagerStep
    \/ NodeManagerUp

FairSpecHighest ==
    /\ InitHighest
    /\ [][NextHighest]_vars
    /\ WF_vars(HighestStep)
    /\ WF_vars(CheckHostsStep)

----------------------------------------------------------------------------
(* The claims *)

InSeq(x, l) == \E k \in DOMAIN l : l[k] = x

\* C1: when check_hosts returns, a host whose probe succeeded on an attempt
\* k <= retry is in the returned list, and a host whose first retry probes
\* all failed is not.
C1_IncludedIffWithinBudget ==
    ch_pc = "returned" =>
        \A i \in DOMAIN ch_ips :
            /\ ch_firstOK[i] \in 1..ch_retry => InSeq(ch_ips[i], ch_result)
            /\ ch_firstOK[i] \notin 1..ch_retry => ~InSeq(ch_ips[i], ch_result)

\* C2: each host is probed at most retry times.
C2_ProbedAtMostRetryTimes ==
    \A i \in DOMAIN ch_ips : ch_nprobes[i] <= ch_retry

\* C3: monitor_execution_finished has returned only if every session of the
\* list it observed is FINISHED on all participants.
C3_ReturnsOnlyWhenAllFinished ==
    mef_pc = "returned" =>
        \A k \in DOMAIN mef_snap : AllFinished(mef_snap[k].status)

\* C4: monitor_graph does not start another poll cycle after a cycle in
\* which every session listed reported a terminal status: it is Done.
C4_DoneAfterTerminalCycle ==
    ~ ( /\ mg_pc = "fetch"
        /\ mg_cycles >= 1
        /\ mg_snap # <<>>
        /\ \A k \in DOMAIN mg_snap : AllFinished(mg_snap[k].status) )

\* C5: when the single-island coordinator has ended, by whatever path, and
\* had started its island manager, terminate_or_kill was called on it
\* exactly once.
C5_TeardownOnEveryExit ==
    (opts.num_islands = 1 /\ pc["hl"] \in Exited /\ dimStarts["hl"] > 0)
        => termCalls = 1

\* C6: tool.submit has been called by the detached thread only after a
\* health probe of the manager's port succeeded.
C6_SubmitOnlyAfterProbe ==
    submitCalls > 0 => bg_probed = "ok"

\* C7: a failure of the detached thread leaves the foreground path as it is
\* when the thread succeeds: the coordinator still gets through supervision
\* and teardown and ends.
C7_ForegroundEndsDespiteFailure ==
    [](bg_pc = "failed" => <>(pc["hl"] \in Exited))

\* the same of a thread that succeeded (the baseline C7 compares with)
ForegroundEndsAfterSuccess ==
    [](bg_pc = "done" => <>(pc["hl"] \in Exited))

\* C8: a SingleIslandOwner never starts a master manager, never more than
\* one island manager or submission thread, and once it is past start_dim it
\* has started exactly one island manager and, a graph having been
\* requested, exactly one submission thread (none otherwise).
GraphRequested(o) == o.logical_graph \/ o.physical_graph

PastStartDim(p) ==
    \/ pc[p] \in {"mef", "sleep", "teardown", "exited"}
    \/ pc[p] \in {"crashed", "interrupted"} /\ mgrProc[LocalHost(p)] # "none"

C8_OwnerStartsOneOfEach ==
    (pc["hl"] # "absent" /\ Role("hl") = "SingleIslandOwner") =>
        /\ mmStarts = 0
        /\ \A p \in Members : dimStarts[p] = 0
        /\ dimStarts["hl"] <= 1
        /\ bgTasks <= 1
        /\ PastStartDim("hl") =>
              /\ dimStarts["hl"] = 1
              /\ bgTasks = IF GraphRequested(opts) THEN 1 ELSE 0

C8_Witness ==
    /\ Role("hl") = "SingleIslandOwner"
    /\ pc["hl"] = "exited"
    /\ dimStarts["hl"] = 1
    /\ bgTasks = 1
    /\ mmStarts = 0

\* C9: every island-level peer is sent at most one node list, exactly one
\* once send_dim_nodes has run, and a member that has started its island
\* manager started it with the list it received, which is the list sent.
PastSend == pc["hl"] \in {"check_dims", "cd_check", "start_mm", "mm_blocked"}

PassedHosts == { ch_ips[i] : i \in { j \in DOMAIN ch_ips : ch_firstOK[j] > 0 } }

IsPassed(h) == h \in PassedHosts

C10_InputOrderKept ==
    ch_pc = "returned" => ch_result = SelectSeq(ch_ips, IsPassed)

C10_Witness ==
    /\ ch_pc = "returned"
    /\ Len(ch_result) >= 2
    /\ \E k \in DOMAIN ch_order : ch_order[k] # k

\* C11: check_hosts has returned only if every task of the map is done, each
\* host having been found up or having been probed retry times or more; no
\* result exists before the return.
C11_ReturnsAfterAllProbes ==
    /\ ch_pc = "returned" =>
          \A i \in DOMAIN ch_ips :
              /\ ch_task[i] = "done"
              /\ ch_up[i] # None \/ ch_nprobes[i] >= ch_retry
    /\ ch_pc # "returned" => ch_result = <<>>

C11_Witness ==
    /\ ch_pc = "returned"
    /\ Len(ch_ips) = MaxHosts
    /\ ch_order # <<>> /\ ch_order[1] # 1
    /\ \E i \in DOMAIN ch_ips : ch_nprobes[i] >= 2

\* C12: check_host without session probing is never left by an exception,
\* whatever the connection attempt meets.
C12_PortProbeNeverRaises ==
    ~pr_session => pr_pc # "raised"

\* C13: when check_host with session probing has returned, the session it
\* created is no longer on the manager.
C13_NoSessionLeftBehind ==
    (pr_session /\ pr_pc = "returned") => ProbeSession \notin nm_sessions

\* C14: when a name of the modifier list does not resolve, no modifier is
\* ever applied to the graph.
HasUnresolved(names) == \E k \in DOMAIN names : ~Resolves(names[k])

C14_NoModifierBeforeResolution ==
    (opts.pg_modifiers.given /\ HasUnresolved(opts.pg_modifiers.names))
        => gp_called = <<>>

\* C15: the graph that was resource-mapped carries the changes of all the
\* modifiers of the list, made in list order.
C15_MappedGraphIsLastOutput ==
    pg # NoGraph => pg.graph.mods = opts.pg_modifiers.names

\* C16: once a node manager has failed the health check of get_pg (retry
\* probes without success) while a partitioned graph waits to be mapped,
\* get_pg ends in an error and never maps the graph.
FailedHealthCheck(i) ==
    ch_nprobes[i] >= ch_retry /\ ch_firstOK[i] \notin 1..ch_retry

HostMissing ==
    /\ pc["hl"] = "gp_check"
    /\ opts.logical_graph
    /\ \E i \in DOMAIN ch_ips : FailedHealthCheck(i)

C16_ErrorWhenHostsMissing ==
    [](HostMissing => (<>(pc["hl"] = "crashed") /\ [](pg = NoGraph)))

\* C17: when get_pg has returned a graph, the hosts it was mapped onto are
\* the island hosts followed by the node managers that passed the health
\* check within its budget, and no other node manager.
JustMapped == pc["hl"] \in {"spawn", "send"} /\ pg # NoGraph

MappedNodes(g) == SubSeq(g.hosts, g.num_dims + 1, Len(g.hosts))

C17_MappedOntoHealthyHosts ==
    JustMapped =>
        /\ SubSeq(pg.hosts, 1, pg.num_dims) = DimIps(opts)
        /\ \A i \in DOMAIN ch_ips :
              InSeq(ch_ips[i], MappedNodes(pg)) <=> ~FailedHealthCheck(i)

\* C18: in a run with --check-interfaces, or one whose command line is
\* invalid, no process sets up a topology provider or a log directory or
\* starts a manager or a submission thread; each process is before its
\* checks or has exited, with status 0 in the first case whatever the other
\* options are, with status 2 otherwise.
InvalidCommandLine(o) ==
    \/ o.logical_graph = o.physical_graph
    \/ ~o.graph_exists
    \/ o.monitor_host /\ o.num_islands > 1

NothingCreated ==
    /\ \A p \in Procs : setup[p] = {} /\ dimStarts[p] = 0 /\ nm_proc[p] = None
    /\ \A h \in Hosts : mgrProc[h] = "none"
    /\ mmStarts = 0 /\ bgTasks = 0 /\ submitCalls = 0

C18_NothingBeforeValidation ==
    /\ opts.check_interfaces =>
          /\ NothingCreated
          /\ \A p \in Procs : pc[p] \in {"absent", "start", "exit0"}
    /\ (~opts.check_interfaces /\ InvalidCommandLine(opts)) =>
          /\ NothingCreated
          /\ \A p \in Procs : pc[p] \in {"absent", "start", "exit2"}

C18_Witness ==
    /\ opts.monitor_host /\ opts.num_islands > 1
    /\ opts.logical_graph # opts.physical_graph /\ opts.graph_exists
    /\ ~opts.check_interfaces
    /\ \A p \in Procs : pc[p] = "exit2"

\* C19: a SingleIslandOwner that submitted a graph has called
\* terminate_or_kill only if the submitted session is FINISHED on all its
\* participants.
SessionFinished(k) ==
    /\ sessions[k].status # <<>>
    /\ AllFinished(sessions[k].status)

C19_NoTeardownBeforeFinished ==
    (Role("hl") = "SingleIslandOwner" /\ termCalls > 0 /\ bgTasks > 0)
        => \E k \in DOMAIN sessions : SessionFinished(k)

\* C20: a SingleIslandOwner that has a graph to submit eventually tears its
\* island manager down and exits (unless it is interrupted).
C20_OwnerEventuallyExits ==
    [](((pc["hl"] = "spawn" /\ PgTruthy(pg))
            => <>(pc["hl"] \in {"exited", "interrupted"})))

\* C21: a MultiIslandHighest coordinator that has sent the node lists and
\* waits for the island hosts eventually starts the master manager, whether
\* or not every island host becomes healthy.
C21_MasterEventuallyStarted ==
    [](pc["hl"] = "check_dims" => <>(mmStarts = 1))

\* C22: over a run of monitor_graph no session id has more than one record
\* in the _g log or more than one record per cycle in the _s log; every
\* session of the current cycle that the loop has handled has its graph
\* record and its status record of this cycle, and the ones it has not yet
\* handled have no status record of this cycle.
GCount(id) == Cardinality({ k \in DOMAIN gfile : gfile[k] = id })

SCount(id, c) ==
    Cardinality({ k \in DOMAIN sfile :
                    sfile[k].ssid = id /\ sfile[k].cycle = c })

HandledThisCycle ==
    IF mg_pc = "fetch" THEN { mg_snap[k].sessionId : k \in DOMAIN mg_snap }
    ELSE IF mg_pc \in {"iter", "raised"}
    THEN { mg_snap[k].sessionId : k \in 1..(mg_i - 1) }
    ELSE {}

C22_OneGraphOneStatusPerCycle ==
    /\ \A id \in SessionIds :
          /\ GCount(id) <= 1
          /\ \A c \in 1..MaxCycles : SCount(id, c) <= 1
          /\ (\E c \in 1..MaxCycles : SCount(id, c) = 1) => GCount(id) = 1
    /\ \A id \in HandledThisCycle :
          GCount(id) = 1 /\ SCount(id, mg_cycles) = 1
    /\ mg_pc = "iter" =>
          \A k \in mg_i..Len(mg_snap) :
              SCount(mg_snap[k].sessionId, mg_cycles) = 0

C22_Witness ==
    /\ mg_pc = "fetch"
    /\ mg_cycles = 2
    /\ Len(mg_snap) = 2
    /\ \E id \in SessionIds : SCount(id, 1) = 1 /\ SCount(id, 2) = 1
    /\ \E id \in SessionIds :
          SCount(id, 1) = 0 /\ SCount(id, 2) = 1 /\ GCount(id) = 1

\* C24: a port probe with a finite timeout (0 included) against a port that
\* keeps refusing connections returns, with True or False.
Refusing == ~portOpen[PrHost] /\ PrHost \notin (unreachable \cup silent)

C24_FiniteTimeoutTerminates ==
    (~pr_session /\ pr_timeout # NoTimeout)
        => <>(~Refusing \/ (pr_pc = "returned" /\ pr_result \in {"True", "False"}))

C24_Witness ==
    /\ ~pr_session
    /\ pr_timeout = 0
    /\ Refusing
    /\ pr_pc = "returned"
    /\ pr_result = "False"

\* C23: no sleep requested is negative, and when a poll cycle is over it has
\* slept at most once and the next cycle starts one interval after this one
\* started (later only if the work of the cycle took longer).
C23_OneSleepPerCycle ==
    /\ cd_req >= 0
    /\ (cd_pc = "fetch" /\ cd_start # NoCycle) =>
          /\ cd_sleeps <= 1
          /\ cd_now - cd_start = Max(GRAPH_MONITOR_INTERVAL, cd_work)

\* C25: with --pg-modifiers not given, or given empty, the coordinator does
\* not fail in get_pg before the hosts are health-filtered, and no modifier
\* is applied.
NoModifiers(o) == ~o.pg_modifiers.given \/ o.pg_modifiers.names = <<"">>

FailedBeforeFiltering == pc["hl"] = "crashed" /\ ch_pc = "idle"

C25_NoModifiersNoFailure ==
    NoModifiers(opts) => (~FailedBeforeFiltering /\ gp_called = <<>>)

\* C26: check_hosts called with no host does not raise; it returns the empty
\* list.
C26_EmptyListReturnsEmpty ==
    ch_ips = <<>> => (ch_pc # "raised" /\ ch_result = <<>>)

\* C27: no thread has returned from await() while fewer than N countDown()
\* calls have completed, and once N have completed every thread that calls
\* await() returns from it.
C27_LatchOpensAtZeroOnly ==
    /\ [](\A w \in WaiterThreads : l_pc[w] = "returned" => l_done >= l_n)
    /\ \A w \in WaiterThreads : (l_done >= l_n) ~> (l_pc[w] = "returned")

C27_Witness ==
    /\ l_n = MaxCount
    /\ l_done >= l_n
    /\ \E w \in WaiterThreads : l_pc[w] = "returned"
    /\ \E w \in WaiterThreads : l_pc[w] = "woken"

====
